---- MODULE Spec2Model ----
(***************************************************************************)
(* Slack shared library (Slack.js): the exported operations as a state     *)
(* machine.  Every HTTP request/response exchange of an operation is one   *)
(* step; the response body is the step's input.  Strings are sequences of  *)
(* tokens (a token is one character, or a word of unreserved characters).  *)
(***************************************************************************)
EXTENDS Integers, Sequences, FiniteSets, TLC

VARIABLES
    op,       \* the exported operation in progress ("idle": none)
    pc,       \* position inside that operation
    args,     \* arguments and locals of the invocation
    name,     \* getChannel: channelName (after line 167); getUserInfo: username
    cursor,   \* var cursor of the lookup loop (<<>>: undefined)
    parms,    \* var parms of the lookup loop: the accumulated query suffix
    found,    \* channelBody / slackMember of the lookup loop
    reqs,     \* the http requests issued by this invocation, in order
    resps,    \* the parsed list responses received by the current lookup
    ret,      \* the value returned
    status,   \* "running", "returned" or "threw"
    payload,  \* the caller's payload object handed to postMessage
    uses      \* how many postMessage calls that object has been handed to

vars == <<op, pc, args, name, cursor, parms, found, reqs, resps, ret, status, payload, uses>>

\* ---------------------------------------------------------------- bounds

\* a listing has at most MaxPages pages: page MaxPages carries no next_cursor
MaxPages == 3
\* input names are at most MAX_CHANNEL_NAME_LENGTH + ExtraLen characters long
ExtraLen == 2

\* ------------------------------------------------------------- JS values

Null == [t |-> "null"]
Undefined == [t |-> "undefined"]
Str(s) == [t |-> "string", s |-> s]
Arr(a) == [t |-> "array", a |-> a]

Min(a, b) == IF a < b THEN a ELSE b

\* !!v
Truthy(v) ==
    CASE v.t = "null" -> FALSE
      [] v.t = "undefined" -> FALSE
      [] v.t = "string" -> v.s # <<>>
      [] OTHER -> TRUE

RECURSIVE Join(_, _)
Join(texts, sep) ==
    IF texts = <<>> THEN <<>>
    ELSE IF Len(texts) = 1 THEN texts[1]
    ELSE texts[1] \o sep \o Join(Tail(texts), sep)

\* String(v), as '+' and encodeURIComponent coerce their operand
RECURSIVE ToStr(_)
ToStr(v) ==
    CASE v.t = "string" -> v.s
      [] v.t = "undefined" -> <<"undefined">>
      [] v.t = "null" -> <<"null">>
      [] v.t = "array" -> Join([i \in 1..Len(v.a) |-> ToStr(v.a[i])], <<",">>)
      [] OTHER -> <<"[", "object", " ", "Object", "]">>

\* o[f] of a record of the API
Field(o, f) == IF f \in DOMAIN o THEN Str(o[f]) ELSE Undefined

\* ----------------------------------------------------------------- text

Whitespace == {" ", "\t"}
I_DOT == "U+0130"
DOT_ABOVE == "U+0307"
UpperChars == <<"A", "B", "M", "X">>
LowerChars == <<"a", "b", "m", "x">>

\* the lower-case mapping of one character (U+0130 maps to two)
LowerOf(c) ==
    IF c = I_DOT THEN <<"i", DOT_ABOVE>>
    ELSE IF \E i \in 1..Len(UpperChars) : UpperChars[i] = c
         THEN <<LowerChars[CHOOSE i \in 1..Len(UpperChars) : UpperChars[i] = c]>>
         ELSE <<c>>

RECURSIVE toLowerCase(_)
toLowerCase(s) ==
    IF s = <<>> THEN <<>> ELSE LowerOf(Head(s)) \o toLowerCase(Tail(s))

\* s.slice(0, n)
slice(s, n) == SubSeq(s, 1, Min(n, Len(s)))

RECURSIVE SkipWhitespace(_)
SkipWhitespace(s) ==
    IF s # <<>> /\ Head(s) \in Whitespace THEN SkipWhitespace(Tail(s)) ELSE s

\* s.replace(/\s+/g, '-')
RECURSIVE ReplaceWhitespace(_)
ReplaceWhitespace(s) ==
    IF s = <<>> THEN <<>>
    ELSE IF Head(s) \in Whitespace
         THEN <<"-">> \o ReplaceWhitespace(SkipWhitespace(Tail(s)))
         ELSE <<Head(s)>> \o ReplaceWhitespace(Tail(s))

MAX_CHANNEL_NAME_LENGTH == 21

Canonicalize(channelName) ==
    toLowerCase(ReplaceWhitespace(slice(channelName, MAX_CHANNEL_NAME_LENGTH)))

\* encodeURIComponent of one token
EncodeToken(c) ==
    CASE c = " " -> "%20"
      [] c = "\t" -> "%09"
      [] c = "\"" -> "%22"
      [] c = "\\" -> "%5C"
      [] c = "[" -> "%5B"
      [] c = "]" -> "%5D"
      [] c = "{" -> "%7B"
      [] c = "}" -> "%7D"
      [] c = ":" -> "%3A"
      [] c = "," -> "%2C"
      [] c = "<" -> "%3C"
      [] c = ">" -> "%3E"
      [] c = "@" -> "%40"
      [] c = "#" -> "%23"
      [] OTHER -> c

encodeURIComponent(s) == [i \in 1..Len(s) |-> EncodeToken(s[i])]

\* JSON.stringify of a string
JsonString(s) ==
    LET RECURSIVE Esc(_)
        Esc(x) == IF x = <<>> THEN <<>>
                  ELSE (IF Head(x) \in {"\"", "\\"} THEN <<"\\", Head(x)>> ELSE <<Head(x)>>)
                       \o Esc(Tail(x))
    IN <<"\"">> \o Esc(s) \o <<"\"">>

\* JSON.stringify of a string, or of an array of {color, text} attachment objects
JSONstringify(v) ==
    IF v.t = "string" THEN JsonString(v.s)
    ELSE <<"[">>
         \o Join([i \in 1..Len(v.a) |->
                    <<"{">> \o JsonString(<<"text">>) \o <<":">> \o JsonString(v.a[i].text) \o <<"}">>],
                 <<",">>)
         \o <<"]">>

\* an object's own keys in insertion order: a sequence of <<key, value>>
SetKey(obj, k, v) ==
    IF \E i \in 1..Len(obj) : obj[i][1] = k
    THEN [i \in 1..Len(obj) |-> IF obj[i][1] = k THEN <<k, v>> ELSE obj[i]]
    ELSE Append(obj, <<k, v>>)

HasKey(obj, k) == \E i \in 1..Len(obj) : obj[i][1] = k
GetKey(obj, k) ==
    IF HasKey(obj, k) THEN obj[CHOOSE i \in 1..Len(obj) : obj[i][1] = k][2] ELSE Undefined

\* the query string as its ordered (key, value) pairs
jsonToQueryString(json) ==
    [i \in 1..Len(json) |->
        <<encodeURIComponent(<<json[i][1]>>), encodeURIComponent(ToStr(json[i][2]))>>]

SlackToken == <<"xoxp">>

\* constants["Slack Token"] is read for every request
TokenParam == <<<<"token">>, SlackToken>>

\* http.request({endpoint: 'Slack', method, path}).write(body)
Request(method, path, query, body) ==
    [method |-> method, path |-> path, query |-> query, body |-> body]

\* ------------------------------------------------- the API's records

Channel(id, n) == [t |-> "object", id |-> id, name |-> n]
Member(id, n, dn) == [t |-> "object", id |-> id, name |-> n, profile |-> [display_name |-> dn]]

C1 == Channel(<<"C1">>, <<"a", "-", "b">>)
C2 == Channel(<<"C2">>, <<"A", "-", "B">>)
C3 == Channel(<<"C3">>, <<"m">>)
ChannelRecords == {C1, C2, C3}
ChannelPages == {<<>>, <<C3>>, <<C1>>, <<C3, C2>>, <<C2, C1>>}
\* names callers pass: with whitespace, in capitals, and one no channel has
ChannelNames == {<<"a", " ", "b">>, <<"A", "-", "B">>, <<"x">>}

U1 == Member(<<"U1">>, <<"b", "o", "b">>, <<"B", "o", "b", "b", "y">>)
U2 == Member(<<"U2">>, <<"r", "o", "b">>, <<"B", "O", "B">>)
U3 == Member(<<"U3">>, <<"X", "M", "a", "t", "t", "e", "r", "s">>, <<"b", "o", "t">>)
MemberRecords == {U1, U2, U3}
MemberPages == {<<>>, <<U3>>, <<U1>>, <<U3, U2>>, <<U2, U1>>}
UserNames == {<<"B", "o", "b">>, <<"a", "m", "y">>}

\* a list response's next_cursor names the page after it
CursorNames == <<"c1", "c2", "c3", "c4", "c5", "c6">>
Metadata(i) ==
    {Undefined, [t |-> "object", next_cursor |-> <<>>]}
    \cup (IF i < MaxPages THEN {[t |-> "object", next_cursor |-> <<CursorNames[i]>>]} ELSE {})

ErrorBody(code) == [ok |-> FALSE, error |-> code]

\* the bodies channels.list can answer its i-th request of a lookup with
ChannelListBodies(i) ==
    {ErrorBody(<<"ratelimited">>)}
    \cup {[ok |-> TRUE, channels |-> p, response_metadata |-> m] :
            p \in ChannelPages, m \in Metadata(i)}

\* the bodies users.list can answer its i-th request of a lookup with
UserListBodies(i) ==
    {ErrorBody(<<"ratelimited">>)}
    \cup {[ok |-> TRUE, members |-> p, response_metadata |-> m] :
            p \in MemberPages, m \in Metadata(i)}

CreateBodies ==
    {ErrorBody(<<"name_taken">>), ErrorBody(<<"invalid_name">>)}
    \cup {[ok |-> TRUE, channel |-> c] : c \in {C1, C3}}

\* --------------------------------------------------------------- lookups

\* parms += (!!cursor ? '&cursor=' + cursor : '')   (limit is 0: never sent)
NextParms(p, c) == IF c # <<>> THEN Append(p, <<<<"cursor">>, c>>) ELSE p

\* the for-in scan of getChannel: the first record of the page with the name
ScanChannels(channels, channelName, channelBody) ==
    LET hits == {i \in 1..Len(channels) :
                    toLowerCase(channels[i].name) = toLowerCase(channelName)}
    IN IF hits = {} THEN channelBody
       ELSE channels[CHOOSE i \in hits : \A j \in hits : i <= j]

\* the for-in scan of getUserInfo: display name or handle
ScanMembers(members, username, slackMember) ==
    LET hits == {i \in 1..Len(members) :
                    \/ toLowerCase(members[i].profile.display_name) = toLowerCase(username)
                    \/ toLowerCase(members[i].name) = toLowerCase(username)}
    IN IF hits = {} THEN slackMember
       ELSE members[CHOOSE i \in hits : \A j \in hits : i <= j]

\* getChannel's test for another page, without the test that nothing was found
ChannelHasNext_AnyCursor(channelBody, slackBody) ==
    /\ slackBody.response_metadata # Undefined
    /\ slackBody.response_metadata.next_cursor # <<>>

\* getChannel's test for another page
ChannelHasNext(channelBody, slackBody) ==
    /\ channelBody = Null
    /\ slackBody.response_metadata # Undefined
    /\ slackBody.response_metadata.next_cursor # <<>>

\* getUserInfo's test for another page (response_metadata is there)
MemberHasNext(slackMember, slackBody) ==
    slackBody.response_metadata.next_cursor # <<>>

\* the state a lookup loop starts from
StartLookup(label, n) ==
    /\ pc' = label
    /\ name' = n
    /\ cursor' = <<>>
    /\ parms' = <<>>
    /\ found' = Null
    /\ resps' = <<>>

Return(v) ==
    /\ pc' = "done"
    /\ ret' = v
    /\ status' = "returned"

Throw ==
    /\ pc' = "done"
    /\ ret' = Undefined
    /\ status' = "threw"

Running ==
    /\ ret' = Undefined
    /\ status' = "running"

\* what the caller of getChannel does with the record it gets back
AfterGetChannel(channelBody) ==
    CASE op \in {"getChannel", "createChannel"} ->
            /\ Return(channelBody)
            /\ UNCHANGED <<args, name>>
      [] op = "archiveChannel" ->
            /\ IF channelBody = Null THEN Throw ELSE pc' = "archive" /\ Running
            /\ UNCHANGED <<args, name>>
      [] op = "getRoomHistory" ->
            /\ IF channelBody = Null THEN Return(Null) ELSE pc' = "history" /\ Running
            /\ UNCHANGED <<args, name>>
      [] op = "inviteToChannel" ->
            IF channelBody = Null
            THEN Return(Null) /\ UNCHANGED <<args, name>>
            ELSE /\ args' = [args EXCEPT !.channel = channelBody,
                                         !.channelId = Field(channelBody, "channel_name")]
                 /\ Running
                 /\ IF Truthy(args.userId)
                    THEN pc' = "invite" /\ UNCHANGED name
                    ELSE pc' = "getUserInfo" /\ name' = args.userName

\* one turn of getChannel's while loop: a channels.list request and its response
getChannelLoop ==
    /\ pc = "getChannel"
    /\ \E slackBody \in ChannelListBodies(Len(resps) + 1) :
        LET p == NextParms(parms, cursor)
            req == Request("GET", "/api/channels.list", <<TokenParam>> \o p, <<>>)
            channelBody == IF slackBody.ok
                           THEN ScanChannels(slackBody.channels, name, found)
                           ELSE found
            log == Append(resps, slackBody)
        IN /\ reqs' = Append(reqs, req)
           /\ UNCHANGED <<op, payload, uses>>
           /\ IF slackBody.ok /\ ChannelHasNext(channelBody, slackBody)
              THEN /\ cursor' = slackBody.response_metadata.next_cursor
                   /\ parms' = p
                   /\ found' = channelBody
                   /\ resps' = log
                   /\ UNCHANGED <<pc, args, name>>
                   /\ Running
              ELSE /\ AfterGetChannel(channelBody)
                   /\ IF op = "inviteToChannel" /\ channelBody # Null /\ ~Truthy(args.userId)
                      THEN cursor' = <<>> /\ parms' = <<>> /\ found' = Null /\ resps' = <<>>
                      ELSE /\ parms' = p
                           /\ found' = channelBody
                           /\ resps' = log
                           /\ UNCHANGED cursor

\* what the caller of getUserInfo does with the record it gets back
AfterGetUserInfo(slackMember) ==
    CASE op = "getUserInfo" ->
            /\ Return(slackMember)
            /\ UNCHANGED args
      [] op = "inviteToChannel" ->
            IF slackMember = Null
            THEN Return(Null) /\ UNCHANGED args
            ELSE /\ args' = [args EXCEPT !.userId = slackMember]
                 /\ pc' = "invite"
                 /\ Running

\* one turn of getUserInfo's while loop: a users.list request and its response
getUserInfoLoop ==
    /\ pc = "getUserInfo"
    /\ \E slackBody \in UserListBodies(Len(resps) + 1) :
        LET p == NextParms(parms, cursor)
            req == Request("GET", "/api/users.list", <<TokenParam>> \o p, <<>>)
            slackMember == IF slackBody.ok
                           THEN ScanMembers(slackBody.members, name, found)
                           ELSE found
        IN /\ reqs' = Append(reqs, req)
           /\ parms' = p
           /\ found' = slackMember
           /\ resps' = Append(resps, slackBody)
           /\ UNCHANGED <<op, name, payload, uses>>
           /\ IF ~slackBody.ok
              THEN AfterGetUserInfo(slackMember) /\ UNCHANGED cursor
              ELSE IF slackBody.response_metadata = Undefined
              THEN Throw /\ UNCHANGED <<args, cursor>>
              ELSE IF MemberHasNext(slackMember, slackBody)
              THEN /\ cursor' = slackBody.response_metadata.next_cursor
                   /\ UNCHANGED <<pc, args>>
                   /\ Running
              ELSE AfterGetUserInfo(slackMember) /\ UNCHANGED cursor

\* ------------------------------------------------------------ operations

NoArgs == [channelName |-> <<>>]

Invoke(o, a) ==
    /\ op = "idle"
    /\ op' = o
    /\ args' = a

\* exports.getChannel
getChannel ==
    \E channelName \in ChannelNames :
        /\ Invoke("getChannel", [channelName |-> channelName])
        /\ StartLookup("getChannel", Canonicalize(channelName))
        /\ reqs' = <<>>
        /\ payload' = <<>>
        /\ uses' = 0
        /\ Running

\* exports.getUserInfo
getUserInfo ==
    \E username \in UserNames :
        /\ Invoke("getUserInfo", [username |-> username])
        /\ StartLookup("getUserInfo", username)
        /\ reqs' = <<>>
        /\ payload' = <<>>
        /\ uses' = 0
        /\ Running

\* createChannel's test of the create response, looking for another error code
NameTaken_WrongCode(slackBody) ==
    "error" \in DOMAIN slackBody /\ slackBody.error = <<"name_exists">>

\* createChannel's test of the create response
NameTaken(slackBody) == "error" \in DOMAIN slackBody /\ slackBody.error = <<"name_taken">>

\* exports.createChannel: the create request, then the lookup when the name is taken
createChannel ==
    \E channelName \in ChannelNames, slackBody \in CreateBodies :
        LET n == Canonicalize(channelName)
            req == Request("POST", "/api/channels.create", <<TokenParam, <<<<"name">>, n>>>>, <<>>)
        IN /\ Invoke("createChannel", [channelName |-> channelName, created |-> slackBody])
           /\ reqs' = <<req>>
           /\ payload' = <<>>
           /\ uses' = 0
           /\ IF NameTaken(slackBody)
              THEN StartLookup("getChannel", Canonicalize(n)) /\ Running
              ELSE /\ Return(IF "channel" \in DOMAIN slackBody THEN slackBody.channel ELSE Undefined)
                   /\ UNCHANGED <<name, cursor, parms, found, resps>>

\* exports.archiveChannel, up to its call of getChannel
archiveChannel ==
    \E channelName \in ChannelNames :
        /\ Invoke("archiveChannel", [channelName |-> channelName])
        /\ StartLookup("getChannel", Canonicalize(Canonicalize(channelName)))
        /\ reqs' = <<>>
        /\ payload' = <<>>
        /\ uses' = 0
        /\ Running

ArchiveBodies == {[ok |-> TRUE], ErrorBody(<<"already_archived">>)}

\* the archive request keyed by the channel's name instead of its id
archiveRequest_ByName ==
    /\ pc = "archive"
    /\ \E slackBody \in ArchiveBodies :
        /\ reqs' = Append(reqs, Request("GET", "/api/channels.archive",
                                        <<TokenParam, <<<<"channel">>, ToStr(Field(found, "name"))>>>>,
                                        <<>>))
        /\ Return(Undefined)
        /\ UNCHANGED <<op, args, name, cursor, parms, found, resps, payload, uses>>

\* archiveChannel after getChannel: the archive request; its response is dropped
archiveRequest ==
    /\ pc = "archive"
    /\ \E slackBody \in ArchiveBodies :
        /\ reqs' = Append(reqs, Request("GET", "/api/channels.archive",
                                        <<TokenParam, <<<<"channel">>, ToStr(Field(found, "id"))>>>>,
                                        <<>>))
        /\ Return(Undefined)
        /\ UNCHANGED <<op, args, name, cursor, parms, found, resps, payload, uses>>

\* optional arguments of getRoomHistory: <<>> when not given
Counts == {<<>>, <<"2">>}
Stamps == {<<>>, <<"1.5">>}

\* exports.getRoomHistory, up to its call of getChannel
getRoomHistory ==
    \E channelName \in ChannelNames, count \in Counts, latest \in Stamps, oldest \in Stamps :
        /\ Invoke("getRoomHistory", [channelName |-> channelName, count |-> count,
                                     latest |-> latest, oldest |-> oldest,
                                     history |-> Null])
        /\ StartLookup("getChannel", Canonicalize(channelName))
        /\ reqs' = <<>>
        /\ payload' = <<>>
        /\ uses' = 0
        /\ Running

Message(ts, user, text) == [ts |-> ts, user |-> user, text |-> text]
M1 == Message(<<"1.1">>, <<"U1">>, <<"hi">>)
M2 == Message(<<"1.2">>, <<"U2">>, <<"yo">>)
HistoryBodies ==
    {ErrorBody(<<"channel_not_found">>)}
    \cup {[ok |-> TRUE, messages |-> m] : m \in {<<>>, <<M2, M1>>, <<M1, M2>>}}

\* '&key=' + value when value is truthy
Optional(k, v) == IF v # <<>> THEN <<<<<<k>>, v>>>> ELSE <<>>

HistoryParms(channel, count, latest, oldest) ==
    <<<<<<"channel">>, ToStr(Field(channel, "id"))>>>>
    \o Optional("count", count) \o Optional("latest", latest) \o Optional("oldest", oldest)

\* what getRoomHistory returns for a history response, without the test of ok
HistoryResult_NoOkCheck(slackBody) ==
    IF "messages" \in DOMAIN slackBody THEN Arr(slackBody.messages) ELSE Undefined

\* what getRoomHistory returns for a history response
HistoryResult(slackBody) == IF ~slackBody.ok THEN Null ELSE Arr(slackBody.messages)

\* getRoomHistory after getChannel found the channel: the history request
historyRequest ==
    /\ pc = "history"
    /\ \E slackBody \in HistoryBodies :
        /\ reqs' = Append(reqs, Request("GET", "/api/channels.history",
                                        <<TokenParam>> \o HistoryParms(found, args.count,
                                                                       args.latest, args.oldest),
                                        <<>>))
        /\ args' = [args EXCEPT !.history = slackBody]
        /\ Return(HistoryResult(slackBody))
        /\ UNCHANGED <<op, name, cursor, parms, found, resps, payload, uses>>

\* exports.getTeam
getTeam ==
    \E body \in {ErrorBody(<<"invalid_auth">>), [ok |-> TRUE, team |-> [t |-> "object", name |-> <<"acme">>]]} :
        /\ Invoke("getTeam", NoArgs)
        /\ reqs' = <<Request("GET", "/team.info", <<TokenParam>>, <<>>)>>
        /\ StartLookup("done", <<>>)
        /\ ret' = IF body.ok THEN body.team ELSE Null
        /\ status' = "returned"
        /\ payload' = <<>>
        /\ uses' = 0

InviteBodies ==
    {[ok |-> TRUE], ErrorBody(<<"already_in_channel">>), ErrorBody(<<"cant_invite_self">>)}

\* ids a caller of inviteToChannel passes, or leaves out
ChannelIds == {Undefined, Str(<<"C1">>)}
UserIds == {Undefined, Str(<<"U1">>)}

\* exports.inviteToChannel, up to its first request
inviteToChannel ==
    \E userName \in UserNames, channelName \in {<<"a", " ", "b">>, <<"x">>},
       userId \in UserIds, channelId \in ChannelIds :
        /\ Invoke("inviteToChannel", [userName |-> userName, channelName |-> channelName,
                                      userId |-> userId, channelId |-> channelId,
                                      channel |-> Null])
        /\ IF ~Truthy(channelId) THEN StartLookup("getChannel", Canonicalize(channelName))
           ELSE IF ~Truthy(userId) THEN StartLookup("getUserInfo", userName)
           ELSE StartLookup("invite", <<>>)
        /\ reqs' = <<>>
        /\ payload' = <<>>
        /\ uses' = 0
        /\ Running

\* the path's query of inviteToChannel's request
InviteQuery(channelId, userId) ==
    <<TokenParam, <<<<"channel">>, ToStr(channelId)>>, <<<<"user">>, ToStr(userId)>>>>

\* inviteToChannel with both ids in hand: the invite request; the raw response is returned
inviteRequest ==
    /\ pc = "invite"
    /\ \E slackBody \in InviteBodies :
        /\ reqs' = Append(reqs, Request("POST", "/api/channels.invite",
                                        InviteQuery(args.channelId, args.userId), <<>>))
        /\ Return([t |-> "object", body |-> slackBody])
        /\ UNCHANGED <<op, args, name, cursor, parms, found, resps, payload, uses>>

PostBodies == {[ok |-> TRUE, ts |-> <<"1.3">>], ErrorBody(<<"channel_not_found">>)}

\* the payload postMessageWithFields builds
FieldsPayload(text, channelName, slackUser) ==
    LET p0 == <<<<"channel", Field(channelName, "id")>>>>
        p1 == IF Truthy(slackUser)
              THEN SetKey(p0, "text", Str(<<"<", "@">> \o ToStr(Field(slackUser, "id")) \o <<">">>))
              ELSE p0
        p2 == IF Truthy(text)
              THEN SetKey(p1, "text", Str(ToStr(GetKey(p1, "text")) \o ToStr(text)))
              ELSE p1
    IN SetKey(p2, "token", Str(SlackToken))

\* postMessageWithFields: its request for the payload built
FieldsRequest(text, channelName, slackUser) ==
    LET p == FieldsPayload(text, channelName, slackUser)
    IN Request("POST", "/api/chat.postMessage", jsonToQueryString(p), p)

\* what postMessage and postMessageWithFields return for a response
PostResult(slackBody) == IF ~slackBody.ok THEN Null ELSE slackBody

Texts == {Undefined, Str(<<"hello">>)}
SlackUsers == {Undefined, Null, U1, U3}

\* exports.postMessageWithFields
postMessageWithFields ==
    \E text \in Texts, slackUser \in SlackUsers, channelName \in {C1, C3},
       slackBody \in PostBodies :
        /\ Invoke("postMessageWithFields", [text |-> text, channelName |-> channelName,
                                            slackUser |-> slackUser, posted |-> slackBody])
        /\ reqs' = <<FieldsRequest(text, channelName, slackUser)>>
        /\ StartLookup("done", <<>>)
        /\ ret' = PostResult(slackBody)
        /\ status' = "returned"
        /\ payload' = <<>>
        /\ uses' = 0

\* the branch channelInvite takes on a failed invite, comparing the name as it is
ShouldNotify_CaseSensitive(slackBody, slackUser) ==
    /\ slackBody.error = <<"already_in_channel">>
    /\ slackUser.name # <<"x", "m", "a", "t", "t", "e", "r", "s">>

\* the branch channelInvite takes on a failed invite
ShouldNotify(slackBody, slackUser) ==
    /\ slackBody.error = <<"already_in_channel">>
    /\ toLowerCase(slackUser.name) # <<"x", "m", "a", "t", "t", "e", "r", "s">>

InvitePayload(slackUser, slackChannel) ==
    <<<<"channel", Field(slackChannel, "id")>>, <<"user", Field(slackUser, "id")>>,
      <<"token", Str(SlackToken)>>>>

\* exports.channelInvite, up to its call of postMessageWithFields
channelInvite ==
    \E slackUser \in MemberRecords, slackChannel \in {C1, C3}, slackBody \in InviteBodies :
        LET p == InvitePayload(slackUser, slackChannel)
        IN /\ Invoke("channelInvite", [slackUser |-> slackUser, slackChannel |-> slackChannel,
                                       invited |-> slackBody, posted |-> Null])
           /\ reqs' = <<Request("POST", "/api/channels.invite", jsonToQueryString(p), p)>>
           /\ payload' = <<>>
           /\ uses' = 0
           /\ IF slackBody.ok
              THEN StartLookup("done", <<>>) /\ ret' = slackBody /\ status' = "returned"
              ELSE IF ShouldNotify(slackBody, slackUser)
              THEN StartLookup("notify", <<>>) /\ Running
              ELSE StartLookup("done", <<>>) /\ ret' = Null /\ status' = "returned"

\* channelInvite's call of postMessageWithFields(" already in channel", ...)
channelInviteNotify ==
    /\ pc = "notify"
    /\ \E slackBody \in PostBodies :
        /\ reqs' = Append(reqs, FieldsRequest(Str(<<" ", "already", " ", "in", " ", "channel">>),
                                              args.slackChannel, args.slackUser))
        /\ args' = [args EXCEPT !.posted = slackBody]
        /\ Return(PostResult(slackBody))
        /\ UNCHANGED <<op, name, cursor, parms, found, resps, payload, uses>>

\* an attachment object of a payload
Attachment(text) == [t |-> "object", text |-> text]
A1 == Attachment(<<"disk", " ", "\"", "full", "\"">>)
A2 == Attachment(<<"ok">>)
AttachmentValues == {Arr(<<>>), Arr(<<A1>>), Arr(<<A2, A1>>), Str(<<>>)}

\* payload objects callers build
Payloads ==
    LET base == <<<<"channel", Str(<<"#", "general">>)>>, <<"text", Str(<<"hi">>)>>>>
    IN {base} \cup {Append(base, <<"attachments", a>>) : a \in AttachmentValues}

\* the payload object after postMessage has set its token only
PostPayload_Raw(p) == SetKey(p, "token", Str(SlackToken))

\* the payload object after postMessage has set its token and attachments
PostPayload(p) ==
    LET p1 == SetKey(p, "token", Str(SlackToken))
    IN IF Truthy(GetKey(p1, "attachments"))
       THEN SetKey(p1, "attachments", Str(JSONstringify(GetKey(p1, "attachments"))))
       ELSE p1

\* postMessage calls one payload object is handed to
MaxUses == 2

\* exports.postMessage, on a payload object just built or on the one of the call before
postMessage ==
    \E fresh \in BOOLEAN, built \in Payloads, slackBody \in PostBodies :
        LET given == IF fresh THEN built ELSE payload
            p == PostPayload(given)
        IN /\ fresh \/ (payload # <<>> /\ uses < MaxUses)
           /\ ~fresh => built = CHOOSE b \in Payloads : TRUE
           /\ Invoke("postMessage", [payload |-> given, posted |-> slackBody])
           /\ reqs' = <<Request("POST", "/chat.postMessage", jsonToQueryString(p), p)>>
           /\ StartLookup("done", <<>>)
           /\ ret' = PostResult(slackBody)
           /\ status' = "returned"
           /\ payload' = p
           /\ uses' = IF fresh THEN 1 ELSE uses + 1

\* the operation has returned or thrown: the library keeps nothing of it
Finish ==
    /\ pc = "done"
    /\ op' = "idle"
    /\ pc' = "idle"
    /\ args' = NoArgs
    /\ name' = <<>>
    /\ cursor' = <<>>
    /\ parms' = <<>>
    /\ found' = Null
    /\ reqs' = <<>>
    /\ resps' = <<>>
    /\ ret' = Undefined
    /\ status' = "idle"
    /\ UNCHANGED <<payload, uses>>

\* ------------------------------------------- canonicalization on its own

NameAlphabet == {"a", "B", " ", "-", I_DOT}

RECURSIVE Repeat(_, _)
Repeat(c, n) == IF n = 0 THEN <<>> ELSE <<c>> \o Repeat(c, n - 1)

ShortTexts(n) == UNION {[1..k -> NameAlphabet] : k \in 0..n}

\* names a caller can pass: one character, a run of one character, two characters
InputNames ==
    {h \o Repeat(c, n) \o tl :
        h \in ShortTexts(1), c \in NameAlphabet,
        n \in 0..(MAX_CHANNEL_NAME_LENGTH + ExtraLen - 3), tl \in ShortTexts(2)}

InitCanon ==
    /\ op = "canonicalize"
    /\ pc = "input"
    /\ args \in {[channelName |-> n] : n \in InputNames}
    /\ name = args.channelName
    /\ cursor = <<>>
    /\ parms = <<>>
    /\ found = Null
    /\ reqs = <<>>
    /\ resps = <<>>
    /\ ret = Undefined
    /\ status = "running"
    /\ payload = <<>>
    /\ uses = 0

\* the first statement of createChannel and of archiveChannel on the caller's name
canonicalizeInCaller ==
    /\ pc = "input"
    /\ pc' = "createChannel"
    /\ name' = Canonicalize(name)
    /\ UNCHANGED <<op, args, cursor, parms, found, reqs, resps, ret, status, payload, uses>>

\* the first statement of getChannel on the name createChannel passes it
canonicalizeInGetChannel ==
    /\ pc = "createChannel"
    /\ pc' = "getChannel"
    /\ name' = Canonicalize(name)
    /\ UNCHANGED <<op, args, cursor, parms, found, reqs, resps, ret, status, payload, uses>>

NextCanon == canonicalizeInCaller \/ canonicalizeInGetChannel

SpecCanon == InitCanon /\ [][NextCanon]_vars

Init ==
    /\ op = "idle"
    /\ pc = "idle"
    /\ args = NoArgs
    /\ name = <<>>
    /\ cursor = <<>>
    /\ parms = <<>>
    /\ found = Null
    /\ reqs = <<>>
    /\ resps = <<>>
    /\ ret = Undefined
    /\ status = "idle"
    /\ payload = <<>>
    /\ uses = 0

Next ==
    \/ getChannel
    \/ getChannelLoop
    \/ getUserInfo
    \/ getUserInfoLoop
    \/ createChannel
    \/ archiveChannel
    \/ archiveRequest
    \/ getRoomHistory
    \/ historyRequest
    \/ getTeam
    \/ inviteToChannel
    \/ inviteRequest
    \/ postMessageWithFields
    \/ channelInvite
    \/ channelInviteNotify
    \/ postMessage
    \/ Finish

Spec == Init /\ [][Next]_vars

\* ------------------------------------------------------------- claims

Returned == pc = "done" /\ status = "returned"

\* the requests of this invocation sent to a path
Sent(path) == {i \in 1..Len(reqs) : reqs[i].path = path}

HasParam(req, k) == \E i \in 1..Len(req.query) : req.query[i][1] = <<k>>
Param(req, k) == req.query[CHOOSE i \in 1..Len(req.query) : req.query[i][1] = <<k>>][2]

\* a list response that carries a next-page cursor
CarriesCursor(body) ==
    /\ body.response_metadata # Undefined
    /\ body.response_metadata.next_cursor # <<>>

SameName(a, b) == toLowerCase(a) = toLowerCase(b)

\* the channels of a page whose name is n, whatever the case
ChannelHits(body, n) == {i \in 1..Len(body.channels) : SameName(body.channels[i].name, n)}

\* the members of a page whose display name or handle is n, whatever the case
MemberHits(body, n) ==
    {i \in 1..Len(body.members) :
        \/ SameName(body.members[i].profile.display_name, n)
        \/ SameName(body.members[i].name, n)}

First(S) == CHOOSE i \in S : \A j \in S : i <= j

AllOk(log) == \A i \in 1..Len(log) : log[i].ok

\* what a lookup of n over the pages of log has to give: k requests and the first
\* match of page k when page k is the first with a match, else every page and null
ChannelLookupIs(log, n, requests, result) ==
    LET pagesWith == {i \in 1..Len(log) : ChannelHits(log[i], n) # {}}
    IN IF pagesWith # {}
       THEN /\ requests = First(pagesWith)
            /\ result = log[First(pagesWith)].channels[First(ChannelHits(log[First(pagesWith)], n))]
       ELSE /\ requests = Len(log)
            /\ result = Null
            /\ ~CarriesCursor(log[Len(log)])
            /\ \A i \in 1..(Len(log) - 1) : CarriesCursor(log[i])

\* C1 as stated: getChannel finds the record whose name is the target name itself
\* (case-insensitively), after k requests when page k is the first holding one,
\* and gives null after every page when no page holds one.
C1_TargetNameMatch ==
    (op = "getChannel" /\ Returned /\ AllOk(resps))
        => ChannelLookupIs(resps, args.channelName,
                           Cardinality(Sent("/api/channels.list")), ret)

\* C1 amended: the match is against the canonicalized target name (first 21
\* characters, whitespace runs to hyphens, lower case): k requests and the first
\* matching record when page k is the first holding one, else a request per page
\* up to the page without next_cursor, and null.
C1_CanonicalNameMatch ==
    (op = "getChannel" /\ Returned /\ AllOk(resps))
        => /\ ChannelLookupIs(resps, Canonicalize(args.channelName),
                              Cardinality(Sent("/api/channels.list")), ret)
           /\ Len(reqs) = Len(resps)

\* C1 witness: no match on page 1, which carries a cursor; the match on page 2.
C1_Witness ==
    /\ op = "getChannel" /\ Returned /\ AllOk(resps)
    /\ args.channelName = <<"A", "-", "B">>
    /\ Len(reqs) = 2
    /\ resps[1].channels = <<C3>>
    /\ resps[2].channels = <<C2, C1>>
    /\ CarriesCursor(resps[2])
    /\ ret = C2

\* C2: in getUserInfo a page with a match is the last page requested, and the
\* record returned is the first match of that page.
C2_UserShortCircuit ==
    op = "getUserInfo"
        => \A i \in 1..Len(resps) :
              (resps[i].ok /\ MemberHits(resps[i], name) # {})
                  => /\ i = Len(resps)
                     /\ Returned => ret = resps[i].members[First(MemberHits(resps[i], name))]

\* C3: in getChannel and getUserInfo an ok:false list response is the last
\* request of the scan and the lookup returns null.
C3_FailureAborts ==
    op \in {"getChannel", "getUserInfo"}
        => \A i \in 1..Len(resps) :
              ~resps[i].ok => (i = Len(resps) /\ Returned /\ ret = Null)

\* C4: createChannel on name_taken returns what the lookup of the canonicalized
\* name gives over the pages listed; otherwise the channel field of the create
\* response after one request and no list request.
C4_CreateIdempotent ==
    (op = "createChannel" /\ Returned)
        => /\ reqs[1].path = "/api/channels.create"
           /\ Param(reqs[1], "name") = Canonicalize(args.channelName)
           /\ IF "error" \in DOMAIN args.created /\ args.created.error = <<"name_taken">>
              THEN /\ Sent("/api/channels.list") = 2..Len(reqs)
                   /\ Len(reqs) = 1 + Len(resps)
                   /\ IF AllOk(resps)
                      THEN ChannelLookupIs(resps, Canonicalize(args.channelName),
                                           Len(resps), ret)
                      ELSE ret = Null
              ELSE /\ Len(reqs) = 1
                   /\ Sent("/api/channels.list") = {}
                   /\ ret = (IF args.created.ok THEN args.created.channel ELSE Undefined)

\* C4 witness: the name is taken and the lookup finds the channel on its second page.
C4_Witness ==
    /\ op = "createChannel" /\ Returned
    /\ args.created = ErrorBody(<<"name_taken">>)
    /\ args.channelName = <<"a", " ", "b">>
    /\ Len(reqs) = 3
    /\ ret = C1

\* C5: the canonical name has at most 21 characters, no whitespace and no
\* upper-case letter, and canonicalizing it again leaves it as it is.
C5_Canonical ==
    /\ pc = "createChannel"
        => /\ Len(name) <= MAX_CHANNEL_NAME_LENGTH
           /\ \A i \in 1..Len(name) :
                 /\ name[i] \notin Whitespace
                 /\ name[i] # I_DOT
                 /\ \A j \in 1..Len(UpperChars) : name[i] # UpperChars[j]
    /\ pc = "getChannel" => name = Canonicalize(args.channelName)

\* C5 without U+0130 in the name: TLC finds the same statement to hold.
C5_CanonicalWithoutIDot ==
    (\A i \in 1..Len(args.channelName) : args.channelName[i] # I_DOT) => C5_Canonical

\* C6: getRoomHistory sends no history request and returns null when the lookup
\* gave no record; else one history request for the record's id, and null on
\* ok:false, the messages as received otherwise.
C6_History ==
    /\ (op = "getRoomHistory" /\ pc = "getChannel") => Sent("/api/channels.history") = {}
    /\ (op = "getRoomHistory" /\ Returned)
        => IF found = Null
           THEN ret = Null /\ Sent("/api/channels.history") = {}
           ELSE /\ Sent("/api/channels.history") = {Len(reqs)}
                /\ Param(reqs[Len(reqs)], "channel") = found.id
                /\ ret = (IF args.history.ok THEN Arr(args.history.messages) ELSE Null)

\* C6 witness: the channel is found and the history arrives newest first.
C6_Witness ==
    /\ op = "getRoomHistory" /\ Returned
    /\ found = C1
    /\ args.history.ok
    /\ ret = Arr(<<M2, M1>>)

\* C7: the invite request of inviteToChannel carries the id of the channel
\* record looked up and the id of the user record looked up, and a null return
\* comes with no invite request.
C7_InviteByIds ==
    (op = "inviteToChannel" /\ Returned)
        => /\ ret = Null => Sent("/api/channels.invite") = {}
           /\ ret # Null
                => /\ Sent("/api/channels.invite") = {Len(reqs)}
                   /\ args.channel # Null
                        => Param(reqs[Len(reqs)], "channel") = args.channel.id
                   /\ args.userId.t = "object"
                        => Param(reqs[Len(reqs)], "user") = args.userId.id

C9_PostMessage ==
    (op = "postMessage" /\ Returned)
        => /\ GetKey(args.payload, "attachments").t = "array"
                => /\ Param(reqs[1], "attachments")
                        = encodeURIComponent(JSONstringify(GetKey(args.payload, "attachments")))
                   /\ GetKey(reqs[1].body, "attachments")
                        = Str(JSONstringify(GetKey(args.payload, "attachments")))
           /\ ret = (IF args.posted.ok THEN args.posted ELSE Null)

\* C9 witness: a payload with two attachments is posted.
C9_Witness ==
    /\ op = "postMessage" /\ Returned
    /\ GetKey(args.payload, "attachments") = Arr(<<A2, A1>>)
    /\ Param(reqs[1], "attachments")
         = <<"%5B", "%7B", "%22", "text", "%22", "%3A", "%22", "ok", "%22", "%7D", "%2C",
             "%7B", "%22", "text", "%22", "%3A", "%22", "disk", "%20", "%5C", "%22", "full",
             "%5C", "%22", "%22", "%7D", "%5D">>
    /\ ret = args.posted

\* C10: the text postMessageWithFields sends is '<@' + user id + '>' and then the
\* additional text when a user is given, and the additional text alone when not.
C10_MentionText ==
    (op = "postMessageWithFields" /\ Returned /\ Truthy(args.text))
        => /\ HasParam(reqs[1], "text")
           /\ Param(reqs[1], "text")
                = encodeURIComponent(
                     (IF Truthy(args.slackUser)
                      THEN <<"<", "@">> \o args.slackUser.id \o <<">">>
                      ELSE <<>>)
                     \o args.text.s)

\* the values of the cursor parameters of a request, in order
CursorParams(req) ==
    LET at == {i \in 1..Len(req.query) : req.query[i][1] = <<"cursor">>}
        RECURSIVE Pick(_)
        Pick(i) == IF i > Len(req.query) THEN <<>>
                   ELSE (IF i \in at THEN <<req.query[i][2]>> ELSE <<>>) \o Pick(i + 1)
    IN Pick(1)

\* C11: in getChannel and getUserInfo the first list request has no cursor
\* parameter and every later one has exactly one, the next_cursor of the response
\* just before it.
C11_OneCursorPerRequest ==
    op \in {"getChannel", "getUserInfo"}
        => \A i \in 1..Len(reqs) :
              CursorParams(reqs[i])
                = (IF i = 1 THEN <<>> ELSE <<resps[i - 1].response_metadata.next_cursor>>)

\* C12: getUserInfo returns its result on an ok:true response without a next-page
\* cursor, with or without response_metadata, and does not end in an error.
C12_UserLookupStops ==
    (op = "getUserInfo" /\ Len(resps) > 0
        /\ resps[Len(resps)].ok /\ ~CarriesCursor(resps[Len(resps)]))
        => /\ Returned
           /\ ret = found

\* C13: archiveChannel sends one archive request at most, after the lookup has
\* ended with a record and for that record's id; with no record it sends none.
C13_ArchiveAfterLookup ==
    op = "archiveChannel"
        => /\ pc = "getChannel" => Sent("/api/channels.archive") = {}
           /\ found = Null => Sent("/api/channels.archive") = {}
           /\ \A i \in Sent("/api/channels.archive") :
                 /\ i = Len(reqs)
                 /\ Len(resps) = i - 1
                 /\ \A j \in 1..(i - 1) : reqs[j].path = "/api/channels.list"
                 /\ ~(resps[i - 1].ok /\ ChannelHasNext(found, resps[i - 1]))
                 /\ found # Null
                 /\ Param(reqs[i], "channel") = found.id
           /\ (pc = "done" /\ found # Null) => Sent("/api/channels.archive") # {}

\* C13 witness: the channel is found on the second page and archived.
C13_Witness ==
    /\ op = "archiveChannel" /\ Returned
    /\ Len(resps) = 2
    /\ found = C2
    /\ reqs[3].path = "/api/channels.archive"
    /\ Param(reqs[3], "channel") = <<"C2">>

\* C13, the other case: the lookup gives no record and archiveChannel ends in a
\* TypeError (channel.id of null) before any archive request.
C13_NoRecordThrows ==
    (op = "archiveChannel" /\ pc = "done" /\ found = Null) => status = "threw"

\* C14: a second postMessage call on the same payload object, with an
\* attachments array, sends the query string the first call sent (which is the
\* query string of the object as the first call left it).
C14_SameQueryTwice ==
    /\ (op = "postMessage" /\ Returned) => reqs[1].query = jsonToQueryString(payload)
    /\ (op = "postMessage" /\ Returned /\ uses = 2
            /\ Truthy(GetKey(args.payload, "attachments")))
        => reqs[1].query = jsonToQueryString(args.payload)

====
